---- MODULE Spec2Model ----
(***************************************************************************)
(* grit: a terminal client for stacked branches.                           *)
(*                                                                         *)
(* The module models                                                       *)
(*   - the branch-tree parser (internal/gt/parse.go),                      *)
(*   - the display linearizer (internal/ui/treeview.go),                   *)
(*   - the session state machine Model.Update (internal/ui model) with the *)
(*     commands it hands to the event loop and the messages they return.   *)
(*                                                                         *)
(* Text is a sequence of runes; a rune is a one-character string.  The     *)
(* box-drawing runes of `gt log short` are written in ASCII:               *)
(*     "@" = U+25C9 (current marker)   "0" = U+25EF (other marker)         *)
(*     "|" = U+2502   "-" = U+2500   "J" = U+2518                          *)
(***************************************************************************)
EXTENDS Integers, Sequences, FiniteSets, Bags, TLC

(***************************************************************************)
(* Small helpers on sequences.                                             *)
(***************************************************************************)
Range(s) == {s[i] : i \in 1..Len(s)}

Reverse(s) == [i \in 1..Len(s) |-> s[Len(s) + 1 - i]]

RECURSIVE Concat(_)
Concat(ss) == IF ss = <<>> THEN <<>> ELSE Head(ss) \o Concat(Tail(ss))

(***************************************************************************)
(* parse.go: runes                                                         *)
(***************************************************************************)
currentMarker == "@"

otherMarker == "0"

ConnectorRunes == {"-", "J", "|"}

\* strings.TrimSpace on a rune sequence (the only white space here is " ").
RECURSIVE TrimLeft(_)
TrimLeft(s) == IF s # <<>> /\ Head(s) = " " THEN TrimLeft(Tail(s)) ELSE s

TrimSpace(s) == Reverse(TrimLeft(Reverse(TrimLeft(s))))

\* stripConnectors removes the tree-drawing runes.
stripConnectors(s) == SelectSeq(s, LAMBDA r : r \notin ConnectorRunes)

\* strings.LastIndex(name, " ("): the last i with name[i..i+1] = " (", 0 if none.
LastIndexParen(name) ==
    LET hits == {i \in 1..(Len(name) - 1) : name[i] = " " /\ name[i + 1] = "("}
    IN  IF hits = {} THEN 0 ELSE CHOOSE i \in hits : \A j \in hits : j <= i

HasSuffixParen(name) == name # <<>> /\ name[Len(name)] = ")"

\* An extraction that does not look at the end of the label.
extractAnnotationNoSuffixCheck(name) ==
    LET idx == LastIndexParen(name)
    IN  IF idx # 0
        THEN [name |-> SubSeq(name, 1, idx - 1),
              annotation |-> SubSeq(name, idx + 2, Len(name) - 1)]
        ELSE [name |-> name, annotation |-> <<>>]

\* extractAnnotation: (name, annotation).
extractAnnotation(name) ==
    LET idx == LastIndexParen(name)
    IN  IF idx # 0 /\ HasSuffixParen(name)
        THEN [name |-> SubSeq(name, 1, idx - 1),
              annotation |-> SubSeq(name, idx + 2, Len(name) - 1)]
        ELSE [name |-> name, annotation |-> <<>>]

\* Index of the first marker rune of the line, 0 if there is none.
MarkerIndex(line) ==
    LET hits == {i \in 1..Len(line) : line[i] \in {currentMarker, otherMarker}}
    IN  IF hits = {} THEN 0 ELSE CHOOSE i \in hits : \A j \in hits : i <= j

\* parseLine: [ok, name, depth, isCurrent, annotation].
parseLine(line) ==
    LET i    == MarkerIndex(line)
        rest == SubSeq(line, i + 1, Len(line))
        ea   == extractAnnotation(TrimSpace(stripConnectors(rest)))
    IN  IF i = 0 \/ ea.name = <<>>
        THEN [ok |-> FALSE, name |-> <<>>, depth |-> 0, isCurrent |-> FALSE,
              annotation |-> <<>>]
        ELSE [ok |-> TRUE, name |-> ea.name, depth |-> (i - 1) \div 2,
              isCurrent |-> line[i] = currentMarker, annotation |-> ea.annotation]

(***************************************************************************)
(* parse.go: tree construction.                                            *)
(*                                                                         *)
(* The forest is an arena: a sequence of nodes in creation order           *)
(* (trunk-first).  parent = 0 marks the root, parent = -1 a node that was  *)
(* created but attached to no parent (it is not part of the returned       *)
(* tree).  A node's Children are the nodes naming it as parent, in arena   *)
(* order, which is the order of the appends.                               *)
(***************************************************************************)
NoPR == [Number |-> 0, State |-> ""]

\* Branch.Order: the line's position among the recognised lines before the
\* reversal (0 = top line); n recognised lines, i the 1-based position after
\* the reversal.
OrderOf(n, i) == n - i

\* Branch.Depth: the depth parseLine computed for the line.
DepthOf(p) == p.depth

NewBranch(p, parent, n, i) ==
    [Name |-> p.name, IsCurrent |-> p.isCurrent, Annotation |-> p.annotation,
     parent |-> parent, Depth |-> DepthOf(p), Order |-> OrderOf(n, i), PR |-> NoPR]

\* parentAtDepth is a function from depth to arena index; 0 = no entry.
MaxLineDepth(parsed) ==
    IF parsed = <<>> THEN 0
    ELSE CHOOSE d \in {parsed[i].depth : i \in 1..Len(parsed)} :
            \A i \in 1..Len(parsed) : parsed[i].depth <= d

\* A switch whose same-depth case attaches one level up, making the entries of
\* a stack siblings.
AttachParentSiblings(p, prevDepth, parentAtDepth) ==
    CASE p.depth = 0 -> 1
      [] p.depth = prevDepth ->
            IF parentAtDepth[p.depth - 1] # 0 THEN parentAtDepth[p.depth - 1] ELSE -1
      [] p.depth > prevDepth ->
            IF parentAtDepth[p.depth - 1] # 0 THEN parentAtDepth[p.depth - 1] ELSE -1
      [] OTHER ->
            IF parentAtDepth[p.depth - 1] # 0 THEN parentAtDepth[p.depth - 1] ELSE -1

\* A switch whose deeper case attaches to the previous entry's tip.
AttachParentPrevTip(p, prevDepth, parentAtDepth) ==
    CASE p.depth = 0 -> 1
      [] p.depth = prevDepth ->
            IF parentAtDepth[p.depth] # 0 THEN parentAtDepth[p.depth] ELSE -1
      [] p.depth > prevDepth ->
            IF parentAtDepth[prevDepth] # 0 THEN parentAtDepth[prevDepth] ELSE -1
      [] OTHER ->
            IF parentAtDepth[p.depth - 1] # 0 THEN parentAtDepth[p.depth - 1] ELSE -1

\* The parent the switch of the loop body attaches entry p to (-1: none).
AttachParent(p, prevDepth, parentAtDepth) ==
    CASE p.depth = 0 -> 1
      [] p.depth = prevDepth ->
            IF parentAtDepth[p.depth] # 0 THEN parentAtDepth[p.depth] ELSE -1
      [] p.depth > prevDepth ->
            IF parentAtDepth[p.depth - 1] # 0 THEN parentAtDepth[p.depth - 1] ELSE -1
      [] OTHER ->
            IF parentAtDepth[p.depth - 1] # 0 THEN parentAtDepth[p.depth - 1] ELSE -1

\* The tips kept by the loop body before parentAtDepth[p.depth] is set.
ClearStale(p, prevDepth, parentAtDepth) ==
    IF p.depth # 0 /\ p.depth < prevDepth
    THEN [d \in DOMAIN parentAtDepth |->
            IF d > p.depth /\ d <= prevDepth THEN 0 ELSE parentAtDepth[d]]
    ELSE parentAtDepth

RECURSIVE BuildTree(_, _, _, _, _)
BuildTree(parsed, i, nodes, parentAtDepth, prevDepth) ==
    IF i > Len(parsed) THEN nodes
    ELSE LET p   == parsed[i]
             par == AttachParent(p, prevDepth, ClearStale(p, prevDepth, parentAtDepth))
             pad == [ClearStale(p, prevDepth, parentAtDepth) EXCEPT ![p.depth] = i]
         IN  BuildTree(parsed, i + 1,
                       Append(nodes, NewBranch(p, par, Len(parsed), i)), pad, p.depth)

\* ParseLogShort: output is the sequence of lines (strings.Split on "\n").
\* The result is the arena; <<>> is the nil forest.
ParsedLines(output) ==
    SelectSeq([i \in 1..Len(output) |-> parseLine(output[i])], LAMBDA pl : pl.ok)

ParseLogShort(output) ==
    LET parsed == Reverse(ParsedLines(output))
    IN  IF parsed = <<>> THEN <<>>
        ELSE BuildTree(parsed, 2,
                       <<NewBranch(parsed[1], 0, Len(parsed), 1)>>,
                       [d \in 0..MaxLineDepth(parsed) |->
                           IF d = parsed[1].depth THEN 1 ELSE 0],
                       parsed[1].depth)

\* The roots of the forest (len(m.branches) is 0 or 1).
Roots(nodes) == IF nodes = <<>> THEN <<>> ELSE <<1>>

\* b.Children as arena indices, in append order.
Children(nodes, i) ==
    LET RECURSIVE Pick(_)
        Pick(j) == IF j > Len(nodes) THEN <<>>
                   ELSE IF nodes[j].parent = i THEN <<j>> \o Pick(j + 1)
                   ELSE Pick(j + 1)
    IN  Pick(1)

\* FindParent / findParentRecursive: [ok, parent].
RECURSIVE findParentRecursive(_, _, _)
findParentRecursive(nodes, node, name) ==
    LET kids == Children(nodes, node)
        RECURSIVE Walk(_)
        Walk(k) ==
            IF k > Len(kids) THEN [ok |-> FALSE, parent |-> <<>>]
            ELSE IF nodes[kids[k]].Name = name
                 THEN [ok |-> TRUE, parent |-> nodes[node].Name]
                 ELSE LET r == findParentRecursive(nodes, kids[k], name)
                      IN  IF r.ok THEN r ELSE Walk(k + 1)
    IN  Walk(1)

\* A lookup that finds a parent for every name.
FindParentAlways(nodes, name) == [ok |-> TRUE, parent |-> <<>>]

FindParent(nodes, name) ==
    IF nodes = <<>> THEN [ok |-> FALSE, parent |-> <<>>]
    ELSE findParentRecursive(nodes, 1, name)

(***************************************************************************)
(* treeview.go: linearization and rendering.                               *)
(***************************************************************************)
\* A collection that shows a leaf directly under the root at depth 0.
RECURSIVE collectAllCompressed(_, _)
collectAllCompressed(nodes, branches) ==
    IF branches = <<>> THEN <<>>
    ELSE <<[branch |-> Head(branches),
            depth |-> IF nodes[Head(branches)].parent = 1
                         /\ Children(nodes, Head(branches)) = <<>>
                      THEN 0 ELSE nodes[Head(branches)].Depth]>>
         \o collectAllCompressed(nodes, Children(nodes, Head(branches)))
         \o collectAllCompressed(nodes, Tail(branches))

\* collectAll: depth-first, a node before its children.
RECURSIVE collectAll(_, _)
collectAll(nodes, branches) ==
    IF branches = <<>> THEN <<>>
    ELSE <<[branch |-> Head(branches), depth |-> nodes[Head(branches)].Depth]>>
         \o collectAll(nodes, Children(nodes, Head(branches)))
         \o collectAll(nodes, Tail(branches))

\* sort.Slice by Branch.Order (insertion sort; equal keys keep their order).
RECURSIVE InsertByOrder(_, _, _)
InsertByOrder(nodes, e, sorted) ==
    IF sorted = <<>> THEN <<e>>
    ELSE IF nodes[e.branch].Order < nodes[Head(sorted).branch].Order
         THEN <<e>> \o sorted
         ELSE <<Head(sorted)>> \o InsertByOrder(nodes, e, Tail(sorted))

RECURSIVE SortByOrder(_, _)
SortByOrder(nodes, entries) ==
    IF entries = <<>> THEN <<>>
    ELSE InsertByOrder(nodes, entries[Len(entries)],
                       SortByOrder(nodes, SubSeq(entries, 1, Len(entries) - 1)))

flattenForDisplay(nodes) == SortByOrder(nodes, collectAll(nodes, Roots(nodes)))

\* A rendering without the empty-state text: no entries, no rows.
renderTreeNoEmptyState(nodes, entries, cursor) ==
    [i \in 1..Len(entries) |->
        [text |-> "branch",
         name |-> nodes[entries[i].branch].Name,
         isCurrent |-> nodes[entries[i].branch].IsCurrent,
         annotation |-> nodes[entries[i].branch].Annotation,
         pr |-> nodes[entries[i].branch].PR,
         depth |-> entries[i].depth,
         selected |-> (i - 1 = cursor)]]

\* renderTree: the text of the tree view, one row per entry; the empty list
\* renders as the empty-state text.
renderTree(nodes, entries, cursor) ==
    IF entries = <<>>
    THEN <<[text |-> "(no stacks)", name |-> <<>>, isCurrent |-> FALSE,
            annotation |-> <<>>, pr |-> NoPR, depth |-> 0, selected |-> FALSE]>>
    ELSE [i \in 1..Len(entries) |->
            [text |-> "branch",
             name |-> nodes[entries[i].branch].Name,
             isCurrent |-> nodes[entries[i].branch].IsCurrent,
             annotation |-> nodes[entries[i].branch].Annotation,
             pr |-> nodes[entries[i].branch].PR,
             depth |-> entries[i].depth,
             selected |-> (i - 1 = cursor)]]

(***************************************************************************)
(* Bounds and the inputs the environment can supply.                       *)
(***************************************************************************)
\* gitChangeMsg events are observed while debounceSeq < MaxSeq.
MaxSeq == 2

\* The user presses a key only while fewer than MaxBackground background
\* commands (reloads, PR lookups, file diffs, debounce timers) are outstanding.
MaxBackground == 1

\* In the sessions that follow pull-request lookups the user may type while
\* fewer than MaxLookups background commands are outstanding.
MaxLookups == 2

\* "" is the empty output: strings.Split gives one empty line.
EmptyOutput == << <<>> >>

\* │ ◉  t        a linear stack of two branches on the trunk m,
\* │ ◯  b        the top one checked out
\* ◯─┘  m
StackOutput ==
    << <<"|", " ", "@", " ", " ", "t">>,
       <<"|", " ", "0", " ", " ", "b">>,
       <<"0", "-", "J", " ", " ", "m">> >>

\* ◯  s              a standalone branch above the same stack, t annotated,
\* │ ◯  t (x)        the trunk checked out
\* │ ◯  b
\* ◉─┘  m
MixedOutput ==
    << <<"0", " ", " ", "s">>,
       <<"|", " ", "0", " ", " ", "t", " ", "(", "x", ")">>,
       <<"|", " ", "0", " ", " ", "b">>,
       <<"@", "-", "J", " ", " ", "m">> >>

\* │ ◯  u        another branch on the trunk, none checked out (detached HEAD)
\* ◯─┘  m
NoCurrentOutput ==
    << <<"|", " ", "0", " ", " ", "u">>,
       <<"0", "-", "J", " ", " ", "m">> >>

LogOutputs == {EmptyOutput, StackOutput, MixedOutput, NoCurrentOutput}

\* The repository as successive reloads find it: every reload is dispatched
\* because the repository may have changed (an action has run), and the n-th
\* one dispatched reads the n-th of these; at most MaxReloads are dispatched.
MaxReloads == 3

VersionOutputs == <<StackOutput, NoCurrentOutput, MixedOutput, EmptyOutput>>

VersionOutput(n) == VersionOutputs[((n - 1) % Len(VersionOutputs)) + 1]

\* The outputs the parser is tried on have up to MaxLines lines, with markers
\* at depths up to MaxMarkerDepth.
MaxLines == 4

MaxMarkerDepth == 2

\* The branch name on line i.
LineNames == <<"a", "b", "c", "d", "e", "f">>

\* A line is a marker ("@" current, "0" other) at a depth, followed by a name,
\* or it carries no marker: "" is the empty line, " " a blank line, "|" a line
\* of connectors.
LineShapes ==
    [marker : {"@", "0"}, depth : 0..MaxMarkerDepth]
        \cup [marker : {"", " ", "|"}, depth : {0}]

\* depth times "│ "
RECURSIVE Indent(_)
Indent(d) == IF d = 0 THEN <<>> ELSE <<"|", " ">> \o Indent(d - 1)

MakeLine(shape, i) ==
    CASE shape.marker \in {"@", "0"} ->
            Indent(shape.depth) \o <<shape.marker, " ", " ", LineNames[i]>>
      [] shape.marker = " " -> <<" ", " ">>
      [] shape.marker = "|" -> <<"|", " ", "|">>
      [] OTHER -> <<>>

\* The output whose i-th line has the i-th shape.
MakeOutput(shapes) == [i \in DOMAIN shapes |-> MakeLine(shapes[i], i)]

\* Every output of 1..MaxLines such lines.
ParseInputs ==
    {MakeOutput(f) : f \in UNION {[1..n -> LineShapes] : n \in 1..MaxLines}}

\* The labels extractAnnotation is tried on: up to MaxLabelLen runes of a
\* letter, the space and the two parentheses.
MaxLabelLen == 7

LabelRunes == {"a", " ", "(", ")"}

Labels == UNION {[1..n -> LabelRunes] : n \in 0..MaxLabelLen}

\* A one-line output: a marker at depth 0 followed by the label.
LabelLine(label) == << <<otherMarker, " ", " ">> \o label >>

LabelInputs == {LabelLine(l) : l \in Labels}

\* The outputs of gt log short in an environment, by the environment's name
\* for them.
OutputsOf(outputs) ==
    CASE outputs = "parse" -> ParseInputs
      [] outputs = "labels" -> LabelInputs
      [] outputs = "stack" -> {StackOutput}
      [] OTHER -> LogOutputs

\* err.Error() of a failed subprocess; "" is a nil error.
Errors == {"some error"}

\* The errors the tests of the status messages feed in, and an unknown one.
KnownErrors ==
    {"executable file not found in $PATH", "detached HEAD state",
     "CONFLICT in file.go", "some error"}

\* The errors of an environment, by the environment's name for them.
ErrorsOf(errors) ==
    CASE errors = "known" -> KnownErrors
      [] errors = "none" -> {}
      [] OTHER -> Errors

\* parseDiffStat results: the changed files of a branch.
DiffFileLists == {<<>>, <<"f1", "f2">>}

PRInfos == {NoPR, [Number |-> 7, State |-> "OPEN"]}

\* The keys the user can press (one per binding, both close keys of the diff
\* view, and a key bound to nothing).
Keys == {"q", "up", "down", "enter", "m", "s", "S", "r", "f", "y", "o", "d",
         "esc", "tab", "?", "x"}

(***************************************************************************)
(* keys.go: the bindings.                                                  *)
(***************************************************************************)
QuitKeys == {"q", "ctrl+c"}

UpKeys == {"up", "k"}

DownKeys == {"down", "j"}

CheckoutKeys == {"enter"}

TrunkKeys == {"m"}

StackSubmitKeys == {"s"}

DownstackSubmitKeys == {"S"}

RestackKeys == {"r"}

FetchKeys == {"f"}

SyncKeys == {"y"}

OpenPRKeys == {"o"}

DiffKeys == {"d"}

DiffCloseKeys == {"d", "esc"}

TabKeys == {"tab"}

HelpKeys == {"?"}

(***************************************************************************)
(* Commands (tea.Cmd) and messages (tea.Msg), as records of one shape.     *)
(***************************************************************************)
NoName == <<>>

\* A status text: a fixed prefix, an error's text, a branch name.
Text(prefix, detail, name) == [prefix |-> prefix, detail |-> detail, name |-> name]

NoText == Text("", "", NoName)

Cmd(type) ==
    [type |-> type, action |-> "", name |-> NoName, parent |-> NoName,
     file |-> "", seq |-> 0, names |-> {}, message |-> NoText]

Msg(type) ==
    [type |-> type, key |-> "", output |-> <<>>, err |-> "", action |-> "",
     message |-> NoText, branchName |-> NoName, parentBranch |-> NoName,
     files |-> <<>>, file |-> "", content |-> "", infos |-> <<>>, names |-> {},
     seq |-> 0]

\* Model.loadLog
loadLog == Cmd("loadLog")

\* waitForChange(watcher): nil (no command) without a watcher.
waitForChange(watcher) ==
    IF watcher = "nil" THEN <<>> ELSE <<Cmd("waitForChange")>>

\* tea.Tick(debounceDuration, ...) carrying seq
debounceTick(seq) == [Cmd("tick") EXCEPT !.seq = seq]

\* runAction(action, successMsg, fn): fn calls the client with name.
runAction(action, successMsg, name) ==
    [Cmd("action") EXCEPT !.action = action, !.message = successMsg, !.name = name]

\* Model.loadDiffData
loadDiffData(parentBranch, branchName) ==
    [Cmd("loadDiffData") EXCEPT !.parent = parentBranch, !.name = branchName]

\* Model.loadDiffFile
loadDiffFile(parent, branch, file) ==
    [Cmd("loadDiffFile") EXCEPT !.parent = parent, !.name = branch, !.file = file]

\* Model.loadPRInfo: the names of all non-root branches of the tree; nil
\* (no command) when there are none.
RECURSIVE Descendants(_, _)
Descendants(nodes, i) ==
    LET kids == Children(nodes, i)
    IN  Range(kids) \cup UNION {Descendants(nodes, k) : k \in Range(kids)}

loadPRInfo(nodes) ==
    LET names == IF nodes = <<>> THEN {}
                 ELSE {nodes[i].Name : i \in Descendants(nodes, 1)}
    IN  IF names = {} THEN <<>> ELSE <<[Cmd("loadPRInfo") EXCEPT !.names = names]>>

spinnerTick == Cmd("spinnerTick")

teaQuit == Cmd("quit")

(***************************************************************************)
(* Status bar.                                                             *)
(***************************************************************************)
newStatusBar ==
    [message |-> NoText, isError |-> FALSE, spinning |-> FALSE, spinnerLabel |-> NoText]

setMessage(s, msg, isError) == [s EXCEPT !.message = msg, !.isError = isError]

setSuccessMessage(s, msg) == [s EXCEPT !.message = msg, !.isError = FALSE]

startSpinner(s, label) == [s EXCEPT !.spinning = TRUE, !.spinnerLabel = label]

stopSpinner(s) == [s EXCEPT !.spinning = FALSE, !.spinnerLabel = NoText]

(***************************************************************************)
(* Viewport content: rows of one shape.                                    *)
(***************************************************************************)
Row(text) ==
    [text |-> text, name |-> NoName, isCurrent |-> FALSE, annotation |-> NoName,
     pr |-> NoPR, depth |-> 0, selected |-> FALSE]

\* the raw output shown as it is
RawContent(output) == [i \in 1..Len(output) |-> [Row("raw") EXCEPT !.name = output[i]]]

renderHelp == <<Row("help")>>

(***************************************************************************)
(* Model (the root bubbletea model) as a record, and its methods.          *)
(* Update returns R(m, cmds): the new model and the batch of commands.     *)
(***************************************************************************)
\* diffView{}: panelFileList is the zero value of diffPanel.
NoDiffView ==
    [branchName |-> NoName, parentBranch |-> NoName, files |-> <<>>,
     fileCursor |-> 0, focusedPanel |-> "panelFileList", content |-> ""]

\* New(gtClient, gitDir): watcher is "open" when createWatcher succeeded.
\* (Model.err and Model.rawOutput are written by the logResultMsg case and read
\* only inside it; they are locals of LogResultOk / LogResultErr here.)
New(watcher) ==
    [ready |-> FALSE, branches |-> <<>>, displayEntries |-> <<>>, cursor |-> 0,
     watcher |-> watcher, debounceSeq |-> 0,
     running |-> FALSE, mode |-> "modeTree", diff |-> NoDiffView,
     statusBar |-> newStatusBar, viewport |-> <<>>]

R(m, cmds) == [m |-> m, cmds |-> cmds]

\* Model.selectedBranch: the arena index under the cursor, 0 for nil.
selectedBranch(m) ==
    IF m.cursor >= 0 /\ m.cursor < Len(m.displayEntries)
    THEN m.displayEntries[m.cursor + 1].branch
    ELSE 0

\* The selected branch's name, "" when selectedBranch is nil.
SelectedName(m) ==
    IF selectedBranch(m) # 0 THEN m.branches[selectedBranch(m)].Name ELSE NoName

\* The first index (0-based) among the 1-based positions hits, -1 if none.
FirstEntry(hits) ==
    IF hits = {} THEN -1 ELSE (CHOOSE i \in hits : \A j \in hits : i <= j) - 1

\* A preserveCursor that prefers the current branch to the selected name.
preserveCursorCurrentFirst(nodes, entries, oldBranchName) ==
    LET byName  == FirstEntry({i \in 1..Len(entries) :
                                   nodes[entries[i].branch].Name = oldBranchName})
        current == FirstEntry({i \in 1..Len(entries) : nodes[entries[i].branch].IsCurrent})
    IN  IF current # -1 THEN current
        ELSE IF oldBranchName # NoName /\ byName # -1 THEN byName
        ELSE 0

\* Model.preserveCursor: the cursor after a reload.
preserveCursor(nodes, entries, oldBranchName) ==
    LET byName  == FirstEntry({i \in 1..Len(entries) :
                                   nodes[entries[i].branch].Name = oldBranchName})
        current == FirstEntry({i \in 1..Len(entries) : nodes[entries[i].branch].IsCurrent})
    IN  IF oldBranchName # NoName /\ byName # -1 THEN byName
        ELSE IF current # -1 THEN current
        ELSE 0

\* A return to the tree that leaves the viewport as it is.
ShowTreeStale(m) == m

\* m.viewport.SetContent(renderTree(m.displayEntries, m.cursor))
ShowTree(m) ==
    [m EXCEPT !.viewport = renderTree(m.branches, m.displayEntries, m.cursor)]

\* An Update that lets keys through while an action is running.
KeyNeverBlocked(m) == FALSE

\* "Block all other input while an action is running."
KeyBlocked(m) == m.running

\* An action case that dispatches without taking the lock.
StartActionUnlocked(m, label, cmd) ==
    R([m EXCEPT !.statusBar = startSpinner(m.statusBar, label)], <<spinnerTick, cmd>>)

\* The common body of the action cases: take the lock, start the spinner,
\* batch the spinner tick and the asynchronous call.
StartAction(m, label, cmd) ==
    R([m EXCEPT !.running = TRUE, !.statusBar = startSpinner(m.statusBar, label)],
      <<spinnerTick, cmd>>)

\* A quit that leaves the watcher open.
UpdateQuitKeepsWatcher(m) == R(m, <<teaQuit>>)

\* Quit: close the watcher when there is one, return tea.Quit.
UpdateQuit(m) ==
    R([m EXCEPT !.watcher = IF m.watcher # "nil" THEN "closed" ELSE "nil"],
      <<teaQuit>>)

\* A help screen that any key closes.
UpdateHelpKeyAnyKey(m, k) == R(ShowTree([m EXCEPT !.mode = "modeTree"]), <<>>)

\* Help mode key handling.
UpdateHelpKey(m, k) ==
    IF k \in HelpKeys \/ k = "esc"
    THEN R(ShowTree([m EXCEPT !.mode = "modeTree"]), <<>>)
    ELSE R(m, <<>>)

\* Diff mode: moving the file cursor requests that file's diff.
MoveFileCursor(m, to) ==
    R([m EXCEPT !.diff.fileCursor = to, !.diff.content = ""],
      <<loadDiffFile(m.diff.parentBranch, m.diff.branchName, m.diff.files[to + 1])>>)

\* A diff mode whose close key leaves the diff sub-state behind.
UpdateDiffKeyKeepsDiff(m, k) ==
    IF k \in DiffCloseKeys THEN R(ShowTree([m EXCEPT !.mode = "modeTree"]), <<>>)
    ELSE R(m, <<>>)

\* Diff mode key handling.
UpdateDiffKey(m, k) ==
    CASE k \in DiffCloseKeys ->
            R(ShowTree([m EXCEPT !.mode = "modeTree", !.diff = NoDiffView]), <<>>)
      [] k \in TabKeys ->
            R([m EXCEPT !.diff.focusedPanel =
                  IF m.diff.focusedPanel = "panelFileList"
                  THEN "panelDiff" ELSE "panelFileList"], <<>>)
      [] k \in UpKeys ->
            IF m.diff.focusedPanel = "panelFileList" /\ m.diff.fileCursor > 0
            THEN MoveFileCursor(m, m.diff.fileCursor - 1)
            ELSE R(m, <<>>)
      [] k \in DownKeys ->
            IF m.diff.focusedPanel = "panelFileList"
               /\ m.diff.fileCursor < Len(m.diff.files) - 1
            THEN MoveFileCursor(m, m.diff.fileCursor + 1)
            ELSE R(m, <<>>)
      [] OTHER -> R(m, <<>>)

\* A checkout that does not look whether a branch is selected.
KeyCheckoutUnguarded(m) ==
    StartAction(m, Text("Checking out ", "", SelectedName(m)),
                runAction("checkout", Text("Checked out ", "", SelectedName(m)),
                          SelectedName(m)))

\* case Checkout
KeyCheckout(m) ==
    LET b == selectedBranch(m)
    IN  IF b # 0
        THEN StartAction(m, Text("Checking out ", "", m.branches[b].Name),
                         runAction("checkout", Text("Checked out ", "", m.branches[b].Name), m.branches[b].Name))
        ELSE R(m, <<>>)

\* case Trunk
KeyTrunk(m) ==
    IF Len(Roots(m.branches)) > 0
    THEN StartAction(m, Text("Checking out ", "", m.branches[1].Name),
                     runAction("checkout", Text("Checked out ", "", m.branches[1].Name), m.branches[1].Name))
    ELSE R(m, <<>>)

\* case StackSubmit
KeyStackSubmit(m) ==
    LET b == selectedBranch(m)
    IN  IF b # 0
        THEN StartAction(m, Text("Submitting stack", "", m.branches[b].Name),
                         runAction("submit", Text("Stack submitted", "", NoName), m.branches[b].Name))
        ELSE R(m, <<>>)

\* case DownstackSubmit
KeyDownstackSubmit(m) ==
    LET b == selectedBranch(m)
    IN  IF b # 0
        THEN StartAction(m, Text("Submitting downstack", "", m.branches[b].Name),
                         runAction("downstack-submit", Text("Downstack submitted", "", NoName),
                                   m.branches[b].Name))
        ELSE R(m, <<>>)

\* A restack of the checked-out branch instead of the selected one.
KeyRestackCurrent(m) ==
    LET b   == selectedBranch(m)
        cur == {i \in 1..Len(m.branches) : m.branches[i].IsCurrent}
        c   == IF cur = {} THEN b ELSE CHOOSE i \in cur : TRUE
    IN  IF b # 0
        THEN StartAction(m, Text("Restacking", "", m.branches[c].Name),
                         runAction("restack", Text("Restacked", "", NoName), m.branches[c].Name))
        ELSE R(m, <<>>)

\* case Restack
KeyRestack(m) ==
    LET b == selectedBranch(m)
    IN  IF b # 0
        THEN StartAction(m, Text("Restacking", "", m.branches[b].Name),
                         runAction("restack", Text("Restacked", "", NoName), m.branches[b].Name))
        ELSE R(m, <<>>)

\* case Fetch
KeyFetch(m) ==
    StartAction(m, Text("Fetching...", "", NoName), runAction("fetch", Text("Fetched", "", NoName), NoName))

\* case Sync
KeySync(m) ==
    StartAction(m, Text("Syncing...", "", NoName), runAction("sync", Text("Synced", "", NoName), NoName))

\* case OpenPR
KeyOpenPR(m) ==
    LET b == selectedBranch(m)
    IN  IF b # 0
        THEN StartAction(m, Text("Opening PR", "", m.branches[b].Name),
                         runAction("openpr", Text("Opened PR for ", "", m.branches[b].Name), m.branches[b].Name))
        ELSE R(m, <<>>)

\* case Diff
KeyDiff(m) ==
    LET b      == selectedBranch(m)
        name   == m.branches[b].Name
        parent == FindParent(m.branches, name)
    IN  IF b = 0 THEN R(m, <<>>)
        ELSE IF ~parent.ok
             THEN R([m EXCEPT !.statusBar =
                        setMessage(m.statusBar, Text("No parent branch for ", "", name),
                                   TRUE)], <<>>)
             ELSE StartAction(m, Text("Loading diff for ", "", name),
                              loadDiffData(parent.parent, name))

\* case key.Matches(msg, m.keys.Up)
KeyUp(m) ==
    IF m.cursor > 0
    THEN R(ShowTree([m EXCEPT !.cursor = m.cursor - 1]), <<>>)
    ELSE R(m, <<>>)

\* A down key that wraps around from the last entry to the first.
KeyDownWraps(m) ==
    IF m.cursor < Len(m.displayEntries) - 1
    THEN R(ShowTree([m EXCEPT !.cursor = m.cursor + 1]), <<>>)
    ELSE R(ShowTree([m EXCEPT !.cursor = 0]), <<>>)

\* case key.Matches(msg, m.keys.Down)
KeyDown(m) ==
    IF m.cursor < Len(m.displayEntries) - 1
    THEN R(ShowTree([m EXCEPT !.cursor = m.cursor + 1]), <<>>)
    ELSE R(m, <<>>)

\* Tree mode key handling (the final switch).
UpdateTreeKey(m, k) ==
    CASE k \in UpKeys -> KeyUp(m)
      [] k \in DownKeys -> KeyDown(m)
      [] k \in CheckoutKeys -> KeyCheckout(m)
      [] k \in TrunkKeys -> KeyTrunk(m)
      [] k \in StackSubmitKeys -> KeyStackSubmit(m)
      [] k \in DownstackSubmitKeys -> KeyDownstackSubmit(m)
      [] k \in RestackKeys -> KeyRestack(m)
      [] k \in FetchKeys -> KeyFetch(m)
      [] k \in SyncKeys -> KeySync(m)
      [] k \in OpenPRKeys -> KeyOpenPR(m)
      [] k \in DiffKeys -> KeyDiff(m)
      [] k \in HelpKeys ->
            R([m EXCEPT !.mode = "modeHelp", !.viewport = renderHelp], <<>>)
      [] OTHER -> R(m, <<>>)

\* A key case that goes to the tree switch whatever the mode.
UpdateKeyTreeOnly(m, k) ==
    IF k \in QuitKeys THEN UpdateQuit(m)
    ELSE IF KeyBlocked(m) THEN R(m, <<>>)
    ELSE UpdateTreeKey(m, k)

\* case tea.KeyMsg
UpdateKey(m, k) ==
    IF k \in QuitKeys THEN UpdateQuit(m)
    ELSE IF KeyBlocked(m) THEN R(m, <<>>)
    ELSE IF m.mode = "modeHelp" THEN UpdateHelpKey(m, k)
    ELSE IF m.mode = "modeDiff" THEN UpdateDiffKey(m, k)
    ELSE UpdateTreeKey(m, k)

\* case tea.WindowSizeMsg (the geometry itself is not modelled)
UpdateWindowSize(m) ==
    IF ~m.ready
    THEN R(ShowTree([m EXCEPT !.ready = TRUE]), <<>>)
    ELSE R(m, <<>>)

\* A successful reload that lists the branches in the order the walk of the
\* forest collects them, without sorting them into line order.
LogResultOkUnsorted(m, msg) ==
    LET branches == ParseLogShort(msg.output)
        old      == selectedBranch(m)
        oldName  == IF old # 0 THEN m.branches[old].Name ELSE NoName
        entries  == collectAll(branches, Roots(branches))
        cursor   == preserveCursor(branches, entries, oldName)
        m1       == [m EXCEPT !.statusBar = setMessage(m.statusBar, NoText, FALSE),
                              !.branches = branches, !.displayEntries = entries,
                              !.cursor = cursor]
    IN  R(IF m.ready THEN ShowTree(m1) ELSE m1, loadPRInfo(branches))

\* case logResultMsg, the branch taken when the reload succeeded.
LogResultOk(m, msg) ==
    LET branches == ParseLogShort(msg.output)
        old      == selectedBranch(m)
        oldName  == IF old # 0 THEN m.branches[old].Name ELSE NoName
        entries  == flattenForDisplay(branches)
        cursor   == preserveCursor(branches, entries, oldName)
        m1       == [m EXCEPT !.statusBar = setMessage(m.statusBar, NoText, FALSE),
                              !.branches = branches, !.displayEntries = entries,
                              !.cursor = cursor]
    IN  R(IF m.ready THEN ShowTree(m1) ELSE m1, loadPRInfo(branches))

\* case logResultMsg, the branch taken when the reload failed.
LogResultErr(m, msg) ==
    LET m1 == [m EXCEPT !.statusBar = setMessage(m.statusBar,
                                                 Text("Error: ", msg.err, NoName), TRUE)]
    IN  R(IF m.ready THEN [m1 EXCEPT !.viewport = RawContent(msg.output)] ELSE m1, <<>>)

\* case logResultMsg
UpdateLogResult(m, msg) ==
    IF msg.err # "" THEN LogResultErr(m, msg) ELSE LogResultOk(m, msg)

\* A diffDataMsg case that opens the diff view even when the load failed.
UpdateDiffDataAlwaysOpens(m, msg) ==
    LET m1 == [m EXCEPT !.running = FALSE, !.statusBar = stopSpinner(m.statusBar)]
    IN  IF msg.err # ""
        THEN R([m1 EXCEPT !.mode = "modeDiff",
                          !.statusBar =
                    setMessage(m1.statusBar, Text("Error: ", msg.err, NoName), TRUE)],
               <<>>)
        ELSE R([m1 EXCEPT !.mode = "modeDiff",
                          !.diff = [NoDiffView EXCEPT !.branchName = msg.branchName,
                                                      !.parentBranch = msg.parentBranch,
                                                      !.files = msg.files],
                          !.statusBar = setMessage(m1.statusBar, NoText, FALSE)],
               IF Len(msg.files) > 0
               THEN <<loadDiffFile(msg.parentBranch, msg.branchName, msg.files[1])>>
               ELSE <<>>)

\* A diffDataMsg case that opens the diff view without giving the lock back.
UpdateDiffDataKeepsLock(m, msg) ==
    IF msg.err # ""
    THEN R([m EXCEPT !.running = FALSE,
                     !.statusBar = setMessage(stopSpinner(m.statusBar),
                                              Text("Error: ", msg.err, NoName), TRUE)],
           <<>>)
    ELSE R([m EXCEPT !.mode = "modeDiff",
                     !.diff = [NoDiffView EXCEPT !.branchName = msg.branchName,
                                                 !.parentBranch = msg.parentBranch,
                                                 !.files = msg.files],
                     !.statusBar = setMessage(m.statusBar, NoText, FALSE)],
           IF Len(msg.files) > 0
           THEN <<loadDiffFile(msg.parentBranch, msg.branchName, msg.files[1])>>
           ELSE <<>>)

\* case diffDataMsg
UpdateDiffData(m, msg) ==
    LET m1 == [m EXCEPT !.running = FALSE, !.statusBar = stopSpinner(m.statusBar)]
    IN  IF msg.err # ""
        THEN R([m1 EXCEPT !.statusBar =
                    setMessage(m1.statusBar, Text("Error: ", msg.err, NoName), TRUE)],
               <<>>)
        ELSE R([m1 EXCEPT !.mode = "modeDiff",
                          !.diff = [NoDiffView EXCEPT !.branchName = msg.branchName,
                                                      !.parentBranch = msg.parentBranch,
                                                      !.files = msg.files],
                          !.statusBar = setMessage(m1.statusBar, NoText, FALSE)],
               IF Len(msg.files) > 0
               THEN <<loadDiffFile(msg.parentBranch, msg.branchName, msg.files[1])>>
               ELSE <<>>)

\* case diffFileContentMsg
UpdateDiffFileContent(m, msg) ==
    IF msg.err # ""
    THEN R([m EXCEPT !.statusBar =
                setMessage(m.statusBar, Text("Error loading diff: ", msg.err, NoName),
                           TRUE)], <<>>)
    ELSE R([m EXCEPT !.diff.content = msg.content], <<>>)

\* A reload after every successful action, open-PR included.
ReloadAfterAnySuccess(msg) == msg.err = ""

\* Whether a completed action is followed by a reload.
ReloadAfter(msg) == msg.err = "" /\ msg.action # "openpr"

\* An actionResultMsg case that gives the lock back only after a success.
UpdateActionResultHoldsOnError(m, msg) ==
    IF msg.err # ""
    THEN R([m EXCEPT !.statusBar =
               setMessage(m.statusBar, Text("Error: ", msg.err, NoName), TRUE)], <<>>)
    ELSE R([m EXCEPT !.running = FALSE,
                     !.statusBar = setSuccessMessage(stopSpinner(m.statusBar), msg.message)],
           IF ReloadAfter(msg) THEN <<loadLog>> ELSE <<>>)

\* case actionResultMsg
UpdateActionResult(m, msg) ==
    LET m1 == [m EXCEPT !.running = FALSE, !.statusBar = stopSpinner(m.statusBar)]
        m2 == IF msg.err # ""
              THEN [m1 EXCEPT !.statusBar =
                       setMessage(m1.statusBar, Text("Error: ", msg.err, NoName), TRUE)]
              ELSE [m1 EXCEPT !.statusBar = setSuccessMessage(m1.statusBar, msg.message)]
    IN  R(m2, IF ReloadAfter(msg) THEN <<loadLog>> ELSE <<>>)

\* applyPRInfo: set PR on every node of the tree whose name is in the map
\* (the map has the keys msg.names, all with the value msg.infos).
applyPRInfo(nodes, msg) ==
    [i \in 1..Len(nodes) |->
        IF nodes[i].Name \in msg.names /\ i \in ({1} \cup Descendants(nodes, 1))
        THEN [nodes[i] EXCEPT !.PR = msg.infos]
        ELSE nodes[i]]

\* A prInfoResultMsg case that draws the tree in every mode.
UpdatePRInfoResultAlwaysRender(m, msg) ==
    LET m1 == [m EXCEPT !.branches = applyPRInfo(m.branches, msg)]
    IN  R(IF m.ready THEN ShowTree(m1) ELSE m1, <<>>)

\* case prInfoResultMsg
UpdatePRInfoResult(m, msg) ==
    LET m1 == [m EXCEPT !.branches = applyPRInfo(m.branches, msg)]
    IN  R(IF m.mode = "modeTree" /\ m.ready THEN ShowTree(m1) ELSE m1, <<>>)

\* case spinner.TickMsg
UpdateSpinnerTick(m) ==
    IF m.running THEN R(m, <<spinnerTick>>) ELSE R(m, <<>>)

\* A gitChangeMsg case whose tick carries the counter's value before the bump.
UpdateGitChangeOldSeq(m) ==
    R([m EXCEPT !.debounceSeq = m.debounceSeq + 1],
      <<debounceTick(m.debounceSeq)>> \o waitForChange(m.watcher))

\* case gitChangeMsg
UpdateGitChange(m) ==
    R([m EXCEPT !.debounceSeq = m.debounceSeq + 1],
      <<debounceTick(m.debounceSeq + 1)>> \o waitForChange(m.watcher))

\* A debounce that lets every tick through.
DebounceAny(m, msg) == TRUE

\* A debounce that lets only superseded ticks through.
DebounceStale(m, msg) == msg.seq < m.debounceSeq

\* Whether a debounce tick is the current one.
DebounceCurrent(m, msg) == msg.seq = m.debounceSeq

\* A debounceFireMsg case that starts the count again after a reload.
UpdateDebounceFireResets(m, msg) ==
    IF DebounceCurrent(m, msg)
    THEN R([m EXCEPT !.debounceSeq = 0], <<loadLog>>)
    ELSE R(m, <<>>)

\* case debounceFireMsg
UpdateDebounceFire(m, msg) ==
    IF DebounceCurrent(m, msg) THEN R(m, <<loadLog>>) ELSE R(m, <<>>)

\* A watcherErrMsg case that does not listen again.
UpdateWatcherErrNoRearm(m, msg) ==
    R([m EXCEPT !.statusBar =
          setMessage(m.statusBar, Text("Watch error: ", msg.err, NoName), TRUE)],
      <<>>)

\* case watcherErrMsg
UpdateWatcherErr(m, msg) ==
    R([m EXCEPT !.statusBar =
          setMessage(m.statusBar, Text("Watch error: ", msg.err, NoName), TRUE)],
      waitForChange(m.watcher))

\* Model.Update.  After the switch every message is also handed to
\* m.viewport.Update, which scrolls the content; the scroll offset is not part
\* of the viewport here, which is its content, and the command it returns is
\* nil.
Update(m, msg) ==
    CASE msg.type = "KeyMsg" -> UpdateKey(m, msg.key)
      [] msg.type = "WindowSizeMsg" -> UpdateWindowSize(m)
      [] msg.type = "logResultMsg" -> UpdateLogResult(m, msg)
      [] msg.type = "diffDataMsg" -> UpdateDiffData(m, msg)
      [] msg.type = "diffFileContentMsg" -> UpdateDiffFileContent(m, msg)
      [] msg.type = "actionResultMsg" -> UpdateActionResult(m, msg)
      [] msg.type = "prInfoResultMsg" -> UpdatePRInfoResult(m, msg)
      [] msg.type = "spinner.TickMsg" -> UpdateSpinnerTick(m)
      [] msg.type = "gitChangeMsg" -> UpdateGitChange(m)
      [] msg.type = "debounceFireMsg" -> UpdateDebounceFire(m, msg)
      [] msg.type = "watcherErrMsg" -> UpdateWatcherErr(m, msg)
      [] OTHER -> R(m, <<>>)

(***************************************************************************)
(* The event loop.                                                         *)
(*                                                                         *)
(*   m        the Model the loop holds                                     *)
(*   pending  the commands handed to the loop that have not yet returned   *)
(*            their message (a bag)                                        *)
(*   msg      the message of the last Update call                          *)
(*   cmds     the batch of commands the last Update call returned          *)
(*   quit     the loop has processed tea.Quit                              *)
(*   debounce what has become of the debounce timers: the sequence numbers *)
(*            of the ticks delivered so far (fired), of those whose        *)
(*            delivery dispatched a reload (reloads), and whether a change *)
(*            was reported after a tick had already been delivered (late); *)
(*            and, where the reloads are told apart (env.outputs is        *)
(*            "versions"), how many reloads have been dispatched (loads):  *)
(*            such a reload carries its number in the bag                  *)
(*   env      what the world around the session can do: the keys the user  *)
(*            presses, the outputs `gt log short` can print, the file      *)
(*            lists and PR records the lookups can return; it never        *)
(*            changes                                                      *)
(***************************************************************************)
VARIABLES m, pending, msg, cmds, quit, debounce, env

vars == <<m, pending, msg, cmds, quit, debounce, env>>

RECURSIVE SeqToBag(_)
SeqToBag(s) == IF s = <<>> THEN EmptyBag ELSE SetToBag({Head(s)}) (+) SeqToBag(Tail(s))

BackgroundTypes == {"loadLog", "loadPRInfo", "loadDiffFile", "tick"}

\* The outstanding background commands.
Background(bag) ==
    LET RECURSIVE Count(_)
        Count(S) == IF S = {} THEN 0
                    ELSE LET c == CHOOSE x \in S : TRUE
                         IN  CopiesIn(c, bag) + Count(S \ {c})
    IN  Count({c \in BagToSet(bag) : c.type \in BackgroundTypes})

\* The lock-guarded operations in flight: the eight actions and the diff load.
LockGuarded(bag) ==
    LET RECURSIVE Count(_)
        Count(S) == IF S = {} THEN 0
                    ELSE LET c == CHOOSE x \in S : TRUE
                         IN  CopiesIn(c, bag) + Count(S \ {c})
    IN  Count({c \in BagToSet(bag) : c.type \in {"action", "loadDiffData"}})

\* The loop takes a batch: the spinner keeps one timer (a tick that does not
\* carry the spinner's current tag is dropped by spinner.Update, so a second
\* chain of ticks dies at once).
Dispatch(bag, batch) ==
    LET new == SeqToBag(SelectSeq(batch, LAMBDA x : x # teaQuit))
        all == bag (+) new
    IN  IF CopiesIn(spinnerTick, all) > 1 THEN all (-) SetToBag({spinnerTick}) ELSE all

\* The reload of a batch, told apart from the others in flight by its number
\* n in the order of dispatch (0 where reloads are not told apart).
Numbered(batch, n) ==
    [i \in 1..Len(batch) |->
        IF batch[i] = loadLog THEN [loadLog EXCEPT !.seq = n] ELSE batch[i]]

\* The number of the reload that Init dispatches.
FirstLoad(e) == IF e.outputs = "versions" THEN 1 ELSE 0

\* The number of reloads dispatched once the batch has been taken.
LoadsAfter(batch) ==
    IF env.outputs = "versions" /\ loadLog \in Range(batch)
    THEN debounce.loads + 1
    ELSE debounce.loads

\* What `gt log short` prints for the reload c.
ReadBy(c) ==
    IF env.outputs = "versions" THEN {VersionOutput(c.seq)} ELSE OutputsOf(env.outputs)

\* Model.Init: tea.Batch(m.loadLog(), waitForChange(m.watcher))
ModelInit(model) == <<loadLog>> \o waitForChange(model.watcher)

\* The session starts in environment e; e.watcher tells whether createWatcher
\* succeeded.
InitIn(e) ==
    /\ env = e
    /\ m = New(e.watcher)
    /\ pending = SeqToBag(Numbered(ModelInit(New(e.watcher)), FirstLoad(e)))
    /\ msg = Msg("init")
    /\ cmds = ModelInit(New(e.watcher))
    /\ quit = FALSE
    /\ debounce = [fired |-> <<>>, reloads |-> <<>>, late |-> FALSE,
                   loads |-> FirstLoad(e)]

\* No command: the message comes from the terminal.
NoCmd == Cmd("none")

\* The loop after an Update call that returned r for message e, which the
\* command c produced (NoCmd: the terminal).
Deliver(c, e, r) ==
    /\ m' = r.m
    /\ pending' = Dispatch(IF c = NoCmd THEN pending ELSE pending (-) SetToBag({c}),
                           Numbered(r.cmds, LoadsAfter(r.cmds)))
    /\ msg' = e
    /\ cmds' = r.cmds
    /\ quit' = (teaQuit \in Range(r.cmds))
    /\ debounce' =
          CASE e.type = "gitChangeMsg" ->
                  [debounce EXCEPT !.late = @ \/ debounce.fired # <<>>,
                                   !.loads = LoadsAfter(r.cmds)]
            [] e.type = "debounceFireMsg" ->
                  [debounce EXCEPT
                      !.fired = Append(@, e.seq),
                      !.reloads = IF loadLog \in Range(r.cmds)
                                  THEN Append(@, e.seq) ELSE @,
                      !.loads = LoadsAfter(r.cmds)]
            [] OTHER -> [debounce EXCEPT !.loads = LoadsAfter(r.cmds)]
    /\ UNCHANGED env

\* One Update call: message e, produced by the command c unless c = NoCmd.
Step(c, e) == Deliver(c, e, Update(m, e))

\* The user presses a key.
Key ==
    /\ ~quit
    /\ Background(pending) < env.background
    /\ debounce.loads < MaxReloads
    /\ \E k \in env.keys : Step(NoCmd, [Msg("KeyMsg") EXCEPT !.key = k])

\* The terminal reports its size.
WindowSize ==
    /\ ~quit
    /\ Step(NoCmd, Msg("WindowSizeMsg"))

\* `gt log short` returns.
LogResult ==
    /\ ~quit
    /\ \E c \in BagToSet(pending) :
        /\ c.type = "loadLog"
        /\ \E e \in {""} \cup ErrorsOf(env.errors) :
            \E out \in IF e = "" THEN ReadBy(c) ELSE {EmptyOutput} :
                Step(c, [Msg("logResultMsg") EXCEPT !.output = out, !.err = e])

\* An action's subprocess returns.
ActionResult ==
    /\ ~quit
    /\ \E c \in BagToSet(pending) :
        /\ c.type = "action"
        /\ \E e \in {""} \cup ErrorsOf(env.errors) :
            Step(c, [Msg("actionResultMsg") EXCEPT
                        !.action = c.action, !.err = e, !.message = c.message])

\* `git diff --stat` returns.
DiffData ==
    /\ ~quit
    /\ \E c \in BagToSet(pending) :
        /\ c.type = "loadDiffData"
        /\ \E e \in {""} \cup ErrorsOf(env.errors) :
            \E fs \in IF e = "" THEN env.fileLists ELSE {<<>>} :
                Step(c, [Msg("diffDataMsg") EXCEPT
                            !.branchName = c.name,
                            !.parentBranch = IF e = "" THEN c.parent ELSE NoName,
                            !.files = fs, !.err = e])

\* `git diff` of one file returns.
DiffFileContent ==
    /\ ~quit
    /\ \E c \in BagToSet(pending) :
        /\ c.type = "loadDiffFile"
        /\ \E e \in {""} \cup ErrorsOf(env.errors) :
            Step(c, [Msg("diffFileContentMsg") EXCEPT
                        !.file = c.file, !.content = IF e = "" THEN c.file ELSE "",
                        !.err = e])

\* The PR lookups of one reload return.
PRInfoResult ==
    /\ ~quit
    /\ \E c \in BagToSet(pending) :
        /\ c.type = "loadPRInfo"
        /\ \E info \in env.prInfos :
            Step(c, [Msg("prInfoResultMsg") EXCEPT !.names = c.names, !.infos = info])

\* The spinner's timer fires.
SpinnerTick ==
    /\ ~quit
    /\ BagIn(spinnerTick, pending)
    /\ Step(spinnerTick, Msg("spinner.TickMsg"))

\* The watcher reports a change under .git.
GitChange ==
    /\ ~quit
    /\ BagIn(Cmd("waitForChange"), pending)
    /\ m.debounceSeq < MaxSeq
    /\ Step(Cmd("waitForChange"), Msg("gitChangeMsg"))

\* The watcher reports an error.
WatcherErr ==
    /\ ~quit
    /\ BagIn(Cmd("waitForChange"), pending)
    /\ \E e \in ErrorsOf(env.errors) :
        Step(Cmd("waitForChange"), [Msg("watcherErrMsg") EXCEPT !.err = e])

\* A debounce timer fires.
DebounceFire ==
    /\ ~quit
    /\ \E c \in BagToSet(pending) :
        /\ c.type = "tick"
        /\ Step(c, [Msg("debounceFireMsg") EXCEPT !.seq = c.seq])

(***************************************************************************)
(* Spec: a session whose watcher could not be set up (no auto-refresh):    *)
(* the user drives it.                                                     *)
(***************************************************************************)
UserEnv ==
    [watcher |-> "nil", keys |-> Keys, outputs |-> "log",
     fileLists |-> DiffFileLists, prInfos |-> {NoPR},
     errors |-> "plain", background |-> MaxBackground]

Init == InitIn(UserEnv)

Next ==
    \/ Key
    \/ WindowSize
    \/ LogResult
    \/ ActionResult
    \/ DiffData
    \/ DiffFileContent
    \/ PRInfoResult
    \/ SpinnerTick

Spec == Init /\ [][Next]_vars

(***************************************************************************)
(* FairSpec: the user's session in which every subprocess started by an    *)
(* action or by the diff load returns: the command's function runs to its  *)
(* return statement and the runtime delivers the message it returns.       *)
(***************************************************************************)
FairSpec == Spec /\ WF_vars(ActionResult) /\ WF_vars(DiffData)

(***************************************************************************)
(* WatchSpec: a session with a watcher; the file system changes under it   *)
(* while the user only looks on, and quits.                                *)
(***************************************************************************)
WatchEnv ==
    [watcher |-> "open", keys |-> QuitKeys, outputs |-> "log",
     fileLists |-> {}, prInfos |-> PRInfos,
     errors |-> "plain", background |-> MaxBackground]

WatchInit == InitIn(WatchEnv)

WatchNext ==
    \/ Key
    \/ WindowSize
    \/ LogResult
    \/ PRInfoResult
    \/ GitChange
    \/ WatcherErr
    \/ DebounceFire

WatchSpec == WatchInit /\ [][WatchNext]_vars

(***************************************************************************)
(* WatchFairSpec: the watched session in which the runtime's timers run:   *)
(* a tick scheduled by tea.Tick is delivered once its delay has passed, so *)
(* the delivery of a pending tick is not postponed forever.                *)
(***************************************************************************)
WatchFairSpec == WatchSpec /\ WF_vars(DebounceFire)

(***************************************************************************)
(* LiveSpec: a session with a watcher in which everything happens: the     *)
(* user works on one stack while the file system changes under it.         *)
(***************************************************************************)
LiveEnv ==
    [watcher |-> "open", keys |-> Keys, outputs |-> "stack",
     fileLists |-> {<<"f1">>}, prInfos |-> {NoPR},
     errors |-> "plain", background |-> MaxBackground]

LiveInit == InitIn(LiveEnv)

LiveNext ==
    \/ Key
    \/ WindowSize
    \/ LogResult
    \/ ActionResult
    \/ DiffData
    \/ DiffFileContent
    \/ PRInfoResult
    \/ SpinnerTick
    \/ GitChange
    \/ WatcherErr
    \/ DebounceFire

LiveSpec == LiveInit /\ [][LiveNext]_vars

(***************************************************************************)
(* ParseSpec: the first load of a session, over every output of            *)
(* ParseInputs: ParseLogShort, flattenForDisplay and renderTree as the     *)
(* logResultMsg case applies them.                                         *)
(***************************************************************************)
ParseEnv ==
    [watcher |-> "nil", keys |-> {}, outputs |-> "parse",
     fileLists |-> {}, prInfos |-> {NoPR},
     errors |-> "plain", background |-> MaxBackground]

ParseInit == InitIn(ParseEnv)

ParseNext ==
    \/ WindowSize
    \/ LogResult
    \/ PRInfoResult

ParseSpec == ParseInit /\ [][ParseNext]_vars

(***************************************************************************)
(* LabelSpec: the first load of a session over the one-line outputs of     *)
(* LabelInputs: parseLine and extractAnnotation on every label.            *)
(***************************************************************************)
LabelEnv ==
    [watcher |-> "nil", keys |-> {}, outputs |-> "labels",
     fileLists |-> {}, prInfos |-> {NoPR},
     errors |-> "plain", background |-> MaxBackground]

LabelInit == InitIn(LabelEnv)

LabelNext ==
    \/ WindowSize
    \/ LogResult

LabelSpec == LabelInit /\ [][LabelNext]_vars

(***************************************************************************)
(* DiffSpec: the user browses the files of a branch's diff, moving the file *)
(* cursor and closing the view while earlier file loads are still running. *)
(***************************************************************************)
DiffEnv ==
    [watcher |-> "nil",
     keys |-> DiffKeys \cup DiffCloseKeys \cup UpKeys \cup DownKeys \cup TabKeys,
     outputs |-> "stack", fileLists |-> DiffFileLists, prInfos |-> {NoPR},
     errors |-> "plain", background |-> MaxLookups]

DiffInit == InitIn(DiffEnv)

DiffNext ==
    \/ Key
    \/ WindowSize
    \/ LogResult
    \/ DiffData
    \/ DiffFileContent
    \/ PRInfoResult

DiffSpec == DiffInit /\ [][DiffNext]_vars

(***************************************************************************)
(* ReloadSpec: the user fetches while reloads are still running, so that   *)
(* several reloads are in flight; every subprocess succeeds.               *)
(***************************************************************************)
ReloadEnv ==
    [watcher |-> "nil", keys |-> FetchKeys \cup DownKeys \cup HelpKeys,
     outputs |-> "versions", fileLists |-> {}, prInfos |-> {NoPR},
     errors |-> "none", background |-> MaxLookups]

ReloadInit == InitIn(ReloadEnv)

ReloadNext ==
    \/ Key
    \/ WindowSize
    \/ LogResult
    \/ ActionResult
    \/ PRInfoResult
    \/ SpinnerTick

ReloadSpec == ReloadInit /\ [][ReloadNext]_vars

(***************************************************************************)
(* PRSpec: pull-request lookups that return while the user has opened the  *)
(* help, started a fetch or moved the cursor, or after a reload replaced   *)
(* the forest.                                                             *)
(***************************************************************************)
PREnv ==
    [watcher |-> "nil", keys |-> HelpKeys \cup FetchKeys \cup DownKeys,
     outputs |-> "log", fileLists |-> {}, prInfos |-> PRInfos,
     errors |-> "plain", background |-> MaxLookups]

PRInit == InitIn(PREnv)

PRNext ==
    \/ Key
    \/ WindowSize
    \/ LogResult
    \/ ActionResult
    \/ PRInfoResult
    \/ SpinnerTick

PRSpec == PRInit /\ [][PRNext]_vars

(***************************************************************************)
(* ErrSpec: reloads and restacks whose subprocess fails with one of        *)
(* KnownErrors.                                                            *)
(***************************************************************************)
ErrEnv ==
    [watcher |-> "nil", keys |-> RestackKeys \cup DownKeys, outputs |-> "stack",
     fileLists |-> {}, prInfos |-> {NoPR},
     errors |-> "known", background |-> MaxBackground]

ErrInit == InitIn(ErrEnv)

ErrNext ==
    \/ Key
    \/ WindowSize
    \/ LogResult
    \/ ActionResult
    \/ PRInfoResult
    \/ SpinnerTick

ErrSpec == ErrInit /\ [][ErrNext]_vars

(***************************************************************************)
(* Properties.  A step is identified by the message it handled (msg') and  *)
(* the batch it returned (cmds'); m is the model before it, m' after.      *)
(***************************************************************************)
\* The branch a display entry of model mm shows (0-based index i).
EntryAt(mm, i) == mm.branches[mm.displayEntries[i + 1].branch]

\* The step handled a key event.
KeyStep(keys) == msg'.type = "KeyMsg" /\ msg'.key \in keys

\* C1: while the running-lock is held, every key event other than quit is a
\* no-op: the whole model (view mode, cursor, forest, display list, diff
\* sub-state, debounce counter, the lock, the spinner) is unchanged and no
\* command is dispatched.
C1_KeysIgnoredWhileRunning ==
    [][(m.running /\ KeyStep(Keys \ QuitKeys))
         => /\ m'.mode = m.mode
            /\ m'.cursor = m.cursor
            /\ m'.branches = m.branches
            /\ m'.displayEntries = m.displayEntries
            /\ m'.diff = m.diff
            /\ m'.debounceSeq = m.debounceSeq
            /\ m'.running
            /\ m'.statusBar = m.statusBar
            /\ cmds' = <<>>
            /\ pending' = pending]_vars

\* An action key was pressed while an action was in flight, and was dropped.
C1_Witness ==
    /\ msg.type = "KeyMsg"
    /\ msg.key \in RestackKeys \cup DiffKeys \cup DownKeys
    /\ m.running
    /\ cmds = <<>>
    /\ LockGuarded(pending) = 1

\* C2: at most one lock-guarded operation is in flight, the lock is held
\* exactly while one is, and a completion event (actionResultMsg or
\* diffDataMsg) is delivered only for the operation in flight and leaves none
\* in flight: dispatches and completions alternate one to one.
C2_OneOperationInFlight ==
    [][/\ LockGuarded(pending') <= 1
       /\ m'.running <=> LockGuarded(pending') = 1
       /\ msg'.type \in {"actionResultMsg", "diffDataMsg"}
            => (LockGuarded(pending) = 1 /\ LockGuarded(pending') = 0)
       /\ LockGuarded(pending') > LockGuarded(pending)
            => (msg'.type = "KeyMsg" /\ LockGuarded(pending) = 0)]_vars

\* A diff load has completed: the diff view is open, the lock is free and no
\* operation is in flight.
C2_Witness ==
    /\ msg.type = "diffDataMsg"
    /\ msg.err = ""
    /\ m.mode = "modeDiff"
    /\ ~m.running
    /\ LockGuarded(pending) = 0

\* C3: a debounceFireMsg dispatches a reload if and only if its seq equals the
\* current debounceSeq; a stale one dispatches nothing; debounceSeq is
\* unchanged either way.
C3_OnlyCurrentTickReloads ==
    [][msg'.type = "debounceFireMsg"
         => /\ msg'.seq = m.debounceSeq => cmds' = <<loadLog>>
            /\ msg'.seq # m.debounceSeq => cmds' = <<>>
            /\ m'.debounceSeq = m.debounceSeq]_vars

\* A stale tick was delivered and dispatched nothing.
C3_Witness ==
    /\ msg.type = "debounceFireMsg"
    /\ msg.seq # m.debounceSeq
    /\ cmds = <<>>
    /\ m.debounceSeq > 0

\* C4: when N >= 1 changes were all reported before any of their ticks was
\* delivered, then once the N ticks have been delivered, in whatever order,
\* exactly one of them has dispatched a reload: the one carrying N.
C4_BurstCollapsesToOneReload ==
    (/\ ~debounce.late
     /\ m.debounceSeq >= 1
     /\ Len(debounce.fired) = m.debounceSeq)
        => debounce.reloads = <<m.debounceSeq>>

\* A burst of at least two changes whose ticks have all been delivered, the
\* current one before a stale one.
C4_Witness ==
    /\ ~debounce.late
    /\ m.debounceSeq >= 2
    /\ Len(debounce.fired) = m.debounceSeq
    /\ debounce.fired[1] = m.debounceSeq
    /\ msg.type = "debounceFireMsg"
    /\ msg.seq # m.debounceSeq

\* C5: after a successful reload the cursor is on the branch with the name
\* selected before the reload if that name is still displayed, otherwise on
\* the current branch if there is one, otherwise at index 0; on the first load
\* nothing is selected, so the second and third cases apply.
C5_CursorAfterReload ==
    [][(msg'.type = "logResultMsg" /\ msg'.err = "")
         => LET idx   == 0..(Len(m'.displayEntries) - 1)
                named == {i \in idx : EntryAt(m', i).Name = SelectedName(m)}
                cur   == {i \in idx : EntryAt(m', i).IsCurrent}
            IN  IF selectedBranch(m) # 0 /\ named # {} THEN m'.cursor \in named
                ELSE IF cur # {} THEN m'.cursor \in cur
                ELSE m'.cursor = 0]_vars

\* A reload left the cursor on a branch that is neither the current branch
\* nor at index 0: it followed the selected name.
C5_Witness ==
    /\ msg.type = "logResultMsg"
    /\ msg.err = ""
    /\ msg.output = MixedOutput
    /\ m.cursor > 0
    /\ m.cursor < Len(m.displayEntries)
    /\ ~EntryAt(m, m.cursor).IsCurrent
    /\ \E i \in 0..(Len(m.displayEntries) - 1) : EntryAt(m, i).IsCurrent

\* C6: a logResultMsg carrying an error that arrives when a forest is loaded
\* leaves forest, display list and cursor unchanged, leaves the tree view
\* showing that tree, and sets an error status message containing
\* "Refresh failed".
C6_FailedReloadKeepsTree ==
    [][(msg'.type = "logResultMsg" /\ msg'.err # "" /\ m.branches # <<>> /\ m.ready)
         => /\ m'.branches = m.branches
            /\ m'.displayEntries = m.displayEntries
            /\ m'.cursor = m.cursor
            /\ m'.viewport = renderTree(m.branches, m.displayEntries, m.cursor)
            /\ m'.statusBar.isError
            /\ m'.statusBar.message.prefix = "Refresh failed"]_vars

\* C7: every actionResultMsg clears the running-lock and stops the spinner;
\* after a successful action a reload is dispatched, except after open-PR,
\* which dispatches nothing.
C7_ActionResultUnlocksAndReloads ==
    [][msg'.type = "actionResultMsg"
         => /\ ~m'.running
            /\ ~m'.statusBar.spinning
            /\ (msg'.err = "" /\ msg'.action # "openpr") => cmds' = <<loadLog>>
            /\ (msg'.err = "" /\ msg'.action = "openpr") => cmds' = <<>>]_vars

\* A successful open-PR has completed: the lock is free and nothing was
\* dispatched.
C7_Witness ==
    /\ msg.type = "actionResultMsg"
    /\ msg.err = ""
    /\ msg.action = "openpr"
    /\ cmds = <<>>
    /\ ~m.running
    /\ ~m.statusBar.spinning

\* C8: a failed actionResultMsg sets an error status message and dispatches
\* no reload, except that a failed restack dispatches one.
C8_FailedActionReloadsOnlyRestack ==
    [][(msg'.type = "actionResultMsg" /\ msg'.err # "")
         => /\ m'.statusBar.isError
            /\ msg'.action = "restack" => loadLog \in Range(cmds')
            /\ msg'.action # "restack" => cmds' = <<>>]_vars

\* C9: submit-stack, submit-downstack or restack with the cursor on the root
\* of the forest is rejected: the lock stays free, nothing is dispatched and
\* an error message ("Cannot submit trunk" / "Cannot restack trunk") is set.
C9_TrunkSubmitRejected ==
    [][(/\ KeyStep(StackSubmitKeys \cup DownstackSubmitKeys \cup RestackKeys)
        /\ ~m.running
        /\ m.mode = "modeTree"
        /\ selectedBranch(m) # 0
        /\ m.branches[selectedBranch(m)].parent = 0)
         => /\ ~m'.running
            /\ cmds' = <<>>
            /\ m'.statusBar.isError
            /\ m'.statusBar.message.prefix
                 = (IF msg'.key \in RestackKeys THEN "Cannot restack trunk"
                    ELSE "Cannot submit trunk")]_vars

\* C10: the diff key with the cursor on a root (a branch without a parent in
\* the forest) is rejected: nothing is dispatched, the lock stays free, the
\* mode stays Tree, and the error message "No parent branch for <name>" is
\* set.
C10_DiffOnRootRejected ==
    [][(/\ KeyStep(DiffKeys)
        /\ ~m.running
        /\ m.mode = "modeTree"
        /\ selectedBranch(m) # 0
        /\ m.branches[selectedBranch(m)].parent = 0)
         => /\ cmds' = <<>>
            /\ pending' = pending
            /\ ~m'.running
            /\ m'.mode = "modeTree"
            /\ m'.statusBar.isError
            /\ m'.statusBar.message = Text("No parent branch for ", "", SelectedName(m))]_vars

\* The diff key was pressed on the root and refused.
C10_Witness ==
    /\ msg.type = "KeyMsg"
    /\ msg.key \in DiffKeys
    /\ selectedBranch(m) # 0
    /\ m.branches[selectedBranch(m)].parent = 0
    /\ m.statusBar.message.prefix = "No parent branch for "
    /\ m.statusBar.isError
    /\ ~m.running
    /\ m.mode = "modeTree"
    /\ cmds = <<>>

\* C11: in every mode, and whether or not the running-lock is held, a quit
\* key closes the watcher when there is one and ends the session; nothing
\* else of the model changes and nothing else is dispatched.
C11_QuitFromAnywhere ==
    [][KeyStep(QuitKeys)
         => /\ m' = [m EXCEPT !.watcher = IF m.watcher = "nil" THEN "nil" ELSE "closed"]
            /\ cmds' = <<teaQuit>>
            /\ quit'
            /\ pending' = pending]_vars

\* The session was quit while an action was running, and the watcher is
\* closed.
C11_Witness ==
    /\ msg.type = "KeyMsg"
    /\ msg.key \in QuitKeys
    /\ quit
    /\ m.running
    /\ m.watcher = "closed"

\* C12: the view mode starts as Tree, is always one of Tree, Diff and Help,
\* and changes only by Tree->Help (help key), Help->Tree (help key or
\* escape), Tree->Diff (a diffDataMsg without error) and Diff->Tree (close
\* key); no other event changes it.
C12_ModeTransitions ==
    /\ m.mode = "modeTree"
    /\ [][/\ m'.mode \in {"modeTree", "modeDiff", "modeHelp"}
          /\ m'.mode # m.mode
               => \/ /\ m.mode = "modeTree" /\ m'.mode = "modeHelp"
                     /\ KeyStep(HelpKeys)
                  \/ /\ m.mode = "modeHelp" /\ m'.mode = "modeTree"
                     /\ KeyStep(HelpKeys \cup {"esc"})
                  \/ /\ m.mode = "modeTree" /\ m'.mode = "modeDiff"
                     /\ msg'.type = "diffDataMsg" /\ msg'.err = ""
                  \/ /\ m.mode = "modeDiff" /\ m'.mode = "modeTree"
                     /\ KeyStep(DiffCloseKeys)]_vars

\* The diff view is open while a change of the repository is being debounced.
C12_Witness ==
    /\ m.mode = "modeDiff"
    /\ msg.type = "gitChangeMsg"
    /\ m.debounceSeq > 0

\* C13: the help key in Tree mode opens help without touching cursor, forest
\* or display list, and the help key or escape in Help mode returns to Tree
\* mode with cursor, forest and display list as they are and the viewport
\* showing the tree again: opening and closing help restores the tree view.
C13_HelpToggleRestoresTree ==
    [][/\ (KeyStep(HelpKeys) /\ ~m.running /\ m.mode = "modeTree")
            => /\ m'.mode = "modeHelp"
               /\ m'.viewport = renderHelp
               /\ m'.cursor = m.cursor
               /\ m'.branches = m.branches
               /\ m'.displayEntries = m.displayEntries
       /\ (KeyStep(HelpKeys \cup {"esc"}) /\ m.mode = "modeHelp")
            => /\ m'.mode = "modeTree"
               /\ m'.cursor = m.cursor
               /\ m'.branches = m.branches
               /\ m'.displayEntries = m.displayEntries
               /\ m'.viewport = renderTree(m.branches, m.displayEntries, m.cursor)]_vars

\* Help was closed with the help key over a loaded tree whose cursor is not
\* on the first row.
C13_Witness ==
    /\ msg.type = "KeyMsg"
    /\ msg.key \in HelpKeys
    /\ m.mode = "modeTree"
    /\ ~m.running
    /\ m.cursor > 0
    /\ m.viewport = renderTree(m.branches, m.displayEntries, m.cursor)
    /\ m.viewport # renderHelp

\* C14: in Diff mode the close key (d or escape) sets the mode to Tree, resets
\* the diff sub-state to its zero value and shows the tree again, with tree
\* cursor, forest and display list unchanged.
C14_DiffCloseRestoresTree ==
    [][(KeyStep(DiffCloseKeys) /\ m.mode = "modeDiff")
         => /\ m'.mode = "modeTree"
            /\ m'.diff = NoDiffView
            /\ m'.diff.files = <<>> /\ m'.diff.fileCursor = 0
            /\ m'.diff.focusedPanel = "panelFileList"
            /\ m'.cursor = m.cursor
            /\ m'.branches = m.branches
            /\ m'.displayEntries = m.displayEntries
            /\ m'.viewport = renderTree(m.branches, m.displayEntries, m.cursor)
            /\ cmds' = <<>>]_vars

\* The d key closed a diff: it was pressed with a branch that has a parent
\* selected, and started nothing.
C14_Witness ==
    /\ msg.type = "KeyMsg"
    /\ msg.key \in DiffKeys
    /\ m.mode = "modeTree"
    /\ ~m.running
    /\ cmds = <<>>
    /\ selectedBranch(m) # 0
    /\ m.branches[selectedBranch(m)].parent > 0
    /\ m.diff = NoDiffView
    /\ m.viewport = renderTree(m.branches, m.displayEntries, m.cursor)

\* The keys of the tree actions that start a subprocess.
TreeActionKeys ==
    CheckoutKeys \cup TrunkKeys \cup StackSubmitKeys \cup DownstackSubmitKeys
        \cup RestackKeys \cup FetchKeys \cup SyncKeys \cup OpenPRKeys

\* C15: in Diff mode and in Help mode no tree action key (in Help also d)
\* dispatches anything or takes the running-lock; in Help mode none of these
\* keys, nor a navigation key, changes the mode or the tree cursor.
C15_TreeKeysInertInDiffAndHelp ==
    [][/\ (KeyStep(TreeActionKeys) /\ m.mode = "modeDiff")
            => (cmds' = <<>> /\ ~m'.running /\ pending' = pending)
       /\ (KeyStep(TreeActionKeys \cup DiffKeys \cup UpKeys \cup DownKeys)
              /\ m.mode = "modeHelp")
            => /\ cmds' = <<>>
               /\ pending' = pending
               /\ ~m'.running
               /\ m'.mode = "modeHelp"
               /\ m'.cursor = m.cursor]_vars

\* The restack key was pressed in the diff view, over a branch it would have
\* restacked in the tree view, and did nothing.
C15_Witness ==
    /\ msg.type = "KeyMsg"
    /\ msg.key \in RestackKeys
    /\ m.mode = "modeDiff"
    /\ selectedBranch(m) # 0
    /\ ~m.running
    /\ cmds = <<>>

\* C16: with nothing selected (an empty display list), checkout,
\* submit-stack, submit-downstack, restack, open-PR and open-diff, and
\* checkout-trunk on the empty forest, leave the running-lock free and
\* dispatch nothing.
C16_NoSelectionNoAction ==
    [][(/\ KeyStep(CheckoutKeys \cup StackSubmitKeys \cup DownstackSubmitKeys
                     \cup RestackKeys \cup OpenPRKeys \cup DiffKeys \cup TrunkKeys)
        /\ m.mode = "modeTree"
        /\ ~m.running
        /\ m.displayEntries = <<>>)
         => /\ m.branches = <<>>
            /\ ~m'.running
            /\ ~m'.statusBar.spinning
            /\ cmds' = <<>>
            /\ pending' = pending]_vars

\* Enter was pressed on a tree that a reload had found empty.
C16_Witness ==
    /\ msg.type = "KeyMsg"
    /\ msg.key \in CheckoutKeys
    /\ m.mode = "modeTree"
    /\ m.ready
    /\ m.displayEntries = <<>>
    /\ m.viewport = renderTree(m.branches, m.displayEntries, m.cursor)
    /\ ~m.running
    /\ cmds = <<>>

\* The nodes of the forest: those reachable from the root.
ForestNodes(nodes) == {e.branch : e \in Range(collectAll(nodes, Roots(nodes)))}

\* The number of current-branch markers in an output.
CurrentMarkers(output) ==
    Cardinality({<<i, j>> \in (1..Len(output)) \X (1..(2 * MaxMarkerDepth + 4)) :
                    j <= Len(output[i]) /\ output[i][j] = currentMarker})

\* The message just handled is a successful first load.
Parsed == msg.type = "logResultMsg" /\ msg.err = ""

\* C17: for every output with exactly one current-branch marker, the parsed
\* forest contains exactly one node with IsCurrent set.
C17_ExactlyOneCurrent ==
    (Parsed /\ CurrentMarkers(msg.output) = 1)
        => Cardinality({i \in ForestNodes(m.branches) : m.branches[i].IsCurrent}) = 1

\* No line of the output carries a branch marker.
NoMarker(output) ==
    \A i \in 1..Len(output) : \A j \in 1..Len(output[i]) :
        output[i][j] \notin {currentMarker, otherMarker}

\* C18: an output with no branch marker (empty, whitespace-only or
\* connector-only lines) parses to the empty forest without an error, and the
\* tree view shows the empty-state text "(no stacks)".
C18_NoMarkerEmptyState ==
    (Parsed /\ NoMarker(msg.output))
        => /\ m.branches = <<>>
           /\ m.displayEntries = <<>>
           /\ ~m.statusBar.isError
           /\ m.ready => (Len(m.viewport) = 1 /\ m.viewport[1].text = "(no stacks)")

\* An empty, a blank and a connector-only line were parsed and the view
\* shows the empty state.
C18_Witness ==
    /\ Parsed
    /\ m.ready
    /\ msg.output = << <<>>, <<" ", " ">>, <<"|", " ", "|">> >>
    /\ m.branches = <<>>
    /\ m.viewport[1].text = "(no stacks)"

\* The Order values of the display list are strictly increasing.
OrderIncreasing(mm) ==
    \A i \in 0..(Len(mm.displayEntries) - 2) :
        EntryAt(mm, i).Order < EntryAt(mm, i + 1).Order

\* C19: flattenForDisplay reproduces the line order of the output: the Order
\* values of the display list are strictly increasing and the i-th entry is
\* the branch of the i-th recognised line.
C19_FlattenIsLineOrder ==
    Parsed =>
        /\ OrderIncreasing(m)
        /\ Len(m.displayEntries) = Len(ParsedLines(msg.output))
        /\ \A i \in 0..(Len(m.displayEntries) - 1) :
              EntryAt(m, i).Name = ParsedLines(msg.output)[i + 1].name

\* The non-root nodes of the forest.
NonRoots(nodes) == {i \in ForestNodes(nodes) : nodes[i].parent # 0}

\* C20 as stated: every non-root node's depth is exactly one greater than its
\* parent's depth, and the root has depth 0.
C20_DepthIsParentPlusOne ==
    Parsed =>
        /\ \A i \in NonRoots(m.branches) :
              m.branches[i].Depth = m.branches[m.branches[i].parent].Depth + 1
        /\ \A i \in ForestNodes(m.branches) \ NonRoots(m.branches) :
              m.branches[i].Depth = 0

\* The trunk line, the last recognised line of the output, is at depth 0.
TrunkAtDepthZero(output) ==
    /\ ParsedLines(output) # <<>>
    /\ ParsedLines(output)[Len(ParsedLines(output))].depth = 0

\* C20, amended: in every forest parsed from an output whose trunk line is at
\* depth 0, every non-root node's depth is its parent's depth or exactly one
\* greater, and the root has depth 0.
C20_DepthStepsByAtMostOne ==
    (Parsed /\ TrunkAtDepthZero(msg.output)) =>
        /\ \A i \in NonRoots(m.branches) :
              m.branches[i].Depth \in
                  {m.branches[m.branches[i].parent].Depth,
                   m.branches[m.branches[i].parent].Depth + 1}
        /\ \A i \in ForestNodes(m.branches) \ NonRoots(m.branches) :
              m.branches[i].Depth = 0

\* A forest with a node one level below its parent and a node of a chain, at
\* its parent's depth.
C20_Witness ==
    /\ Parsed
    /\ TrunkAtDepthZero(msg.output)
    /\ \E i \in NonRoots(m.branches) :
          /\ m.branches[i].Depth = 1
          /\ m.branches[m.branches[i].parent].Depth = 0
    /\ \E i \in NonRoots(m.branches) :
          /\ m.branches[i].Depth = 1
          /\ m.branches[m.branches[i].parent].Depth = 1

\* The recognised lines of an output in trunk-first order, the order in which
\* the loop of ParseLogShort takes them; entry i becomes node i.
TrunkFirst(output) == Reverse(ParsedLines(output))

\* Entry k closes the stack of entry j: it comes later and is shallower.
Finishes(output, k, j) ==
    k > j /\ TrunkFirst(output)[k].depth < TrunkFirst(output)[j].depth

\* C21: whenever an entry is shallower than the previous one (a drop to depth
\* 0 included), the tips deeper than it are discarded, so no later deeper
\* entry is attached under the tip of a stack that a shallower entry has
\* already finished.
C21_NoAttachUnderFinishedTip ==
    Parsed =>
        \A i \in 1..Len(m.branches) :
            (TrunkFirst(msg.output)[i].depth > 0 /\ m.branches[i].parent > 0)
                => ~\E k \in 1..(i - 1) :
                       Finishes(msg.output, k, m.branches[i].parent)

\* The depths of the recognised lines in trunk-first order.
TrunkFirstDepths(output) ==
    [i \in 1..Len(TrunkFirst(output)) |-> TrunkFirst(output)[i].depth]

\* C22: an entry at the same non-zero depth as the entry before it (in
\* trunk-first order) is a child of that entry, so a three-line linear stack
\* parses to a root with one child that has one child.
C22_SameDepthChains ==
    Parsed =>
        /\ \A i \in 2..Len(m.branches) :
              (TrunkFirst(msg.output)[i].depth # 0
                 /\ TrunkFirst(msg.output)[i].depth = TrunkFirst(msg.output)[i - 1].depth)
                  => m.branches[i].parent = i - 1
        /\ TrunkFirstDepths(msg.output) = <<0, 1, 1>>
              => /\ Children(m.branches, 1) = <<2>>
                 /\ Children(m.branches, 2) = <<3>>
                 /\ Children(m.branches, 3) = <<>>

\* A three-line linear stack was parsed into a chain.
C22_Witness ==
    /\ Parsed
    /\ TrunkFirstDepths(msg.output) = <<0, 1, 1>>
    /\ m.branches[3].parent = 2
    /\ m.branches[2].parent = 1

\* The label of a one-line output as extractAnnotation receives it: the text
\* after the marker, trimmed.
LabelOf(output) == TrimSpace(SubSeq(output[1], 2, Len(output[1])))

\* The label contains " (" and ends with ")".
HasAnnotationForm(l) ==
    /\ \E i \in 1..(Len(l) - 1) : l[i] = " " /\ l[i + 1] = "("
    /\ l # <<>>
    /\ l[Len(l)] = ")"

\* C23: extractAnnotation splits a label into name and annotation, with
\* label = name " (" annotation ")", only when the label contains " (" and
\* ends with ")"; every other label is returned unchanged with an empty
\* annotation.
C23_SplitsOnlyAnnotationForm ==
    (Parsed /\ LabelOf(msg.output) # <<>>) =>
        /\ Len(m.branches) = 1
        /\ IF HasAnnotationForm(LabelOf(msg.output))
           THEN m.branches[1].Name \o <<" ", "(">> \o m.branches[1].Annotation \o <<")">>
                    = LabelOf(msg.output)
           ELSE /\ m.branches[1].Name = LabelOf(msg.output)
                /\ m.branches[1].Annotation = <<>>

\* "a (a)" was split into the name "a" and the annotation "a".
C23_Witness ==
    /\ Parsed
    /\ LabelOf(msg.output) = <<"a", " ", "(", "a", ")">>
    /\ m.branches[1].Name = <<"a">>
    /\ m.branches[1].Annotation = <<"a">>

\* C24: annotation extraction is idempotent: applied to the name it returned,
\* extractAnnotation yields that same name and an empty annotation.
C24_ExtractionIdempotent ==
    (Parsed /\ m.branches # <<>>) =>
        extractAnnotation(m.branches[1].Name)
            = [name |-> m.branches[1].Name, annotation |-> <<>>]

Listeners == CopiesIn(Cmd("waitForChange"), pending)

\* The number of waitForChange commands the last Update call returned.
Rearmed == Cardinality({i \in 1..Len(cmds) : cmds[i] = Cmd("waitForChange")})

\* C26: every gitChangeMsg and every watcherErrMsg re-arms the listener, so
\* while the watcher exists and the session has not quit there is exactly one
\* pending listener, never none and never two.
C26_OneListener ==
    /\ (msg.type \in {"gitChangeMsg", "watcherErrMsg"}) => Rearmed = 1
    /\ (env.watcher = "open" /\ ~quit) => Listeners = 1

\* A watcher error arrived after a change had been handled, and one listener
\* is pending again.
C26_Witness ==
    /\ msg.type = "watcherErrMsg"
    /\ m.debounceSeq >= 1
    /\ ~quit
    /\ Rearmed = 1
    /\ Listeners = 1

\* The phrases the status messages are matched on that occur in a string of
\* the model.
PhrasesIn(str) ==
    CASE str = "executable file not found in $PATH" -> {"executable file not found"}
      [] str = "detached HEAD state" -> {"detached HEAD"}
      [] str = "CONFLICT in file.go" -> {"CONFLICT"}
      [] OTHER -> {}

\* strings.Contains(m.statusBar.message, phrase)
MessageContains(mm, phrase) ==
    phrase \in PhrasesIn(mm.statusBar.message.prefix)
                 \cup PhrasesIn(mm.statusBar.message.detail)

\* The message just handled reports a failed subprocess.
Failed == msg.type \in {"logResultMsg", "actionResultMsg"} /\ msg.err # ""

\* C27: a failed command puts the status bar in error state with a friendly
\* message chosen by the substring the error contains: "gt CLI not found" for
\* "executable file not found", "Detached HEAD" for "detached HEAD",
\* "Conflict detected" for "CONFLICT", and the raw error text otherwise.
C27_FriendlyErrors ==
    Failed =>
        /\ m.statusBar.isError
        /\ "executable file not found" \in PhrasesIn(msg.err)
              => MessageContains(m, "gt CLI not found")
        /\ "detached HEAD" \in PhrasesIn(msg.err)
              => MessageContains(m, "Detached HEAD")
        /\ "CONFLICT" \in PhrasesIn(msg.err)
              => MessageContains(m, "Conflict detected")
        /\ PhrasesIn(msg.err) = {} => m.statusBar.message.detail = msg.err

\* The keys whose action takes the selected branch, and the action each starts.
SelectedBranchKeys ==
    StackSubmitKeys \cup DownstackSubmitKeys \cup RestackKeys \cup OpenPRKeys

ActionOf(k) ==
    CASE k \in StackSubmitKeys -> "submit"
      [] k \in DownstackSubmitKeys -> "downstack-submit"
      [] k \in RestackKeys -> "restack"
      [] k \in OpenPRKeys -> "openpr"
      [] OTHER -> "checkout"

\* The actions an Update call returned.
ActionCmds(cs) == {c \in Range(cs) : c.type = "action"}

\* C28: submit-stack, submit-downstack, restack and open-PR are invoked with
\* the name of the branch under the cursor, and checkout-trunk with the name
\* of the forest's first root wherever the cursor is.
C28_ActionTargets ==
    [][(KeyStep(SelectedBranchKeys \cup TrunkKeys) /\ ~m.running /\ m.mode = "modeTree")
          => /\ (msg'.key \in SelectedBranchKeys /\ selectedBranch(m) # 0)
                  => /\ ActionCmds(cmds') # {}
                     /\ \A c \in ActionCmds(cmds') :
                           c.action = ActionOf(msg'.key) /\ c.name = SelectedName(m)
             /\ (msg'.key \in TrunkKeys /\ m.branches # <<>>)
                  => /\ ActionCmds(cmds') # {}
                     /\ \A c \in ActionCmds(cmds') :
                           c.action = "checkout" /\ c.name = m.branches[1].Name]_vars

\* A restack was started for the selected branch while another branch is the
\* checked-out one.
C28_Witness ==
    /\ msg.type = "KeyMsg"
    /\ msg.key \in RestackKeys
    /\ selectedBranch(m) # 0
    /\ ~m.branches[selectedBranch(m)].IsCurrent
    /\ \E i \in 1..Len(m.branches) : m.branches[i].IsCurrent
    /\ \E c \in ActionCmds(cmds) : c.action = "restack" /\ c.name = SelectedName(m)

\* C29: a prInfoResultMsg sets the PR info exactly on the nodes of the forest
\* whose name is a key of the result, and leaves every other node, the tree
\* structure, the display list, the cursor, the mode and the running lock as
\* they were; it is applied in every mode, and the tree view is drawn again
\* only in tree mode.
C29_PRInfoFrame ==
    [][(msg'.type = "prInfoResultMsg")
          => /\ Len(m'.branches) = Len(m.branches)
             /\ \A i \in 1..Len(m.branches) :
                   IF i \in ForestNodes(m.branches) /\ m.branches[i].Name \in msg'.names
                   THEN m'.branches[i] = [m.branches[i] EXCEPT !.PR = msg'.infos]
                   ELSE m'.branches[i] = m.branches[i]
             /\ m'.displayEntries = m.displayEntries
             /\ m'.cursor = m.cursor
             /\ m'.mode = m.mode
             /\ m'.running = m.running
             /\ m'.viewport =
                   IF m.mode = "modeTree" /\ m.ready
                   THEN renderTree(m'.branches, m'.displayEntries, m'.cursor)
                   ELSE m.viewport]_vars

\* A lookup returned while the help was open: a node has its PR, the root has
\* none, and the help is still on screen.
C29_Witness ==
    /\ msg.type = "prInfoResultMsg"
    /\ m.mode = "modeHelp"
    /\ m.ready
    /\ m.viewport = renderHelp
    /\ \E i \in ForestNodes(m.branches) : m.branches[i].PR.Number = 7
    /\ \E i \in ForestNodes(m.branches) : m.branches[i].PR = NoPR

\* C30: the session enters diff mode only by a diffDataMsg without error,
\* which releases the lock, fills the diff view with the branch, its parent
\* and the file list, puts the file cursor on 0 and requests the first file's
\* diff iff there is a file; a diffDataMsg with an error releases the lock,
\* shows the error and leaves the mode at tree.
C30_DiffModeEntry ==
    [][/\ (m'.mode = "modeDiff" /\ m.mode # "modeDiff")
            => (msg'.type = "diffDataMsg" /\ msg'.err = "")
       /\ (msg'.type = "diffDataMsg" /\ msg'.err = "")
            => /\ m'.mode = "modeDiff"
               /\ ~m'.running
               /\ m'.diff.branchName = msg'.branchName
               /\ m'.diff.parentBranch = msg'.parentBranch
               /\ m'.diff.files = msg'.files
               /\ m'.diff.fileCursor = 0
               /\ cmds' = IF msg'.files # <<>>
                          THEN <<loadDiffFile(msg'.parentBranch, msg'.branchName,
                                              msg'.files[1])>>
                          ELSE <<>>
       /\ (msg'.type = "diffDataMsg" /\ msg'.err # "")
            => /\ ~m'.running
               /\ m'.statusBar.isError
               /\ m'.statusBar.message.detail = msg'.err
               /\ m.mode = "modeTree"
               /\ m'.mode = "modeTree"
               /\ cmds' = <<>>]_vars

\* A diff with files was opened and its first file requested.
C30_Witness ==
    /\ msg.type = "diffDataMsg"
    /\ msg.err = ""
    /\ m.mode = "modeDiff"
    /\ m.diff.files = <<"f1", "f2">>
    /\ m.diff.fileCursor = 0
    /\ cmds = <<loadDiffFile(m.diff.parentBranch, m.diff.branchName, "f1")>>

\* C31: debounceSeq starts at 0, grows by exactly 1 on each gitChangeMsg and
\* is changed by no other event, so it never decreases.
C31_DebounceSeqCounts ==
    /\ m.debounceSeq = 0
    /\ [][m'.debounceSeq = IF msg'.type = "gitChangeMsg"
                           THEN m.debounceSeq + 1
                           ELSE m.debounceSeq]_vars

\* Two changes were counted and the second one's reload has been dispatched.
C31_Witness ==
    /\ m.debounceSeq = 2
    /\ msg.type = "debounceFireMsg"
    /\ msg.seq = 2
    /\ loadLog \in Range(cmds)

\* The n-th change has just been reported and is the latest one.
LastChange(n) == msg.type = "gitChangeMsg" /\ m.debounceSeq = n

\* A reload was dispatched by the tick of the n-th change.
ReloadedFor(n) == \E i \in 1..Len(debounce.reloads) : debounce.reloads[i] = n

\* C32: every reported change is eventually followed by a reload unless a
\* further change arrives (or the session ends): when ticks are eventually
\* delivered, the tick of the last change of a burst dispatches loadLog.
C32_LastChangeReloads ==
    \A n \in 1..MaxSeq :
        LastChange(n) ~> (ReloadedFor(n) \/ m.debounceSeq > n \/ quit)

\* The tick of the last change of a burst of two was delivered after the
\* superseded one and dispatched the reload.
C32_Witness ==
    /\ m.debounceSeq = MaxSeq
    /\ debounce.fired = <<1, MaxSeq>>
    /\ debounce.reloads = <<MaxSeq>>
    /\ msg.type = "debounceFireMsg"
    /\ cmds = <<loadLog>>
    /\ ~quit

\* C33: the cursor is 0 when the display list is empty and an index into it
\* otherwise; the up key at index 0 and the down key at the last index leave
\* it where it is.
C33_CursorInBounds ==
    /\ [](IF Len(m.displayEntries) = 0
          THEN m.cursor = 0
          ELSE m.cursor \in 0..(Len(m.displayEntries) - 1))
    /\ [][/\ (KeyStep(UpKeys) /\ m.cursor = 0) => m'.cursor = m.cursor
          /\ (KeyStep(DownKeys) /\ m.cursor = Len(m.displayEntries) - 1)
                => m'.cursor = m.cursor]_vars

\* The down key was pressed in the tree with the cursor on the last of several
\* entries: the viewport still shows the output of a failed reload, so the
\* key re-rendered nothing and the cursor stayed.
C33_Witness ==
    /\ msg.type = "KeyMsg"
    /\ msg.key \in DownKeys
    /\ m.mode = "modeTree"
    /\ Len(m.displayEntries) >= 2
    /\ m.cursor = Len(m.displayEntries) - 1
    /\ m.viewport = RawContent(EmptyOutput)

\* The forest without the PR information attached to its nodes.
Shape(nodes) == [i \in 1..Len(nodes) |-> [nodes[i] EXCEPT !.PR = NoPR]]

\* C34: the display list is always the linearization of the current forest;
\* only a successful reload replaces the forest and the list (PR information
\* is written into the nodes of the forest that is there).
C34_DisplayIsLinearization ==
    /\ [](m.displayEntries = flattenForDisplay(m.branches))
    /\ [][~(msg'.type = "logResultMsg" /\ msg'.err = "")
            => /\ m'.displayEntries = m.displayEntries
               /\ Shape(m'.branches) = Shape(m.branches)]_vars

\* A reload replaced a loaded forest by one without a current branch: the
\* cursor followed the selected name to the second entry of the new list.
C34_Witness ==
    /\ msg.type = "logResultMsg"
    /\ msg.err = ""
    /\ msg.output = NoCurrentOutput
    /\ Len(m.displayEntries) = 2
    /\ m.cursor = 1

\* C35: a held running-lock is eventually given back, with the spinner
\* stopped, when the subprocess of the action or of the diff load returns
\* (or the user quits first).
C35_LockEventuallyCleared ==
    m.running ~> ((~m.running /\ ~m.statusBar.spinning) \/ quit)

\* A sync that failed has given the lock back.
C35_Witness ==
    /\ msg.type = "actionResultMsg"
    /\ msg.action = "sync"
    /\ msg.err # ""
    /\ ~m.running
    /\ ~m.statusBar.spinning
    /\ m.statusBar.isError

\* C36: while the running-lock is held the mode is Tree, and every completion
\* message of a lock-guarded operation is handled in Tree mode.
C36_LockedInTreeMode ==
    /\ [](m.running => m.mode = "modeTree")
    /\ [][msg'.type \in {"actionResultMsg", "diffDataMsg"}
            => m.running /\ m.mode = "modeTree"]_vars

\* The help key was pressed while the lock was held: the mode is still Tree.
C36_Witness ==
    /\ msg.type = "KeyMsg"
    /\ msg.key \in HelpKeys
    /\ m.running
    /\ m.mode = "modeTree"

\* C37: while the mode is Help the main viewport shows the help text: no
\* reload result and no PR-info result that arrives in Help mode puts the
\* tree in its place.
C37_HelpShowsHelp ==
    [][(/\ msg'.type \in {"logResultMsg", "prInfoResultMsg"}
        /\ m.mode = "modeHelp"
        /\ m.ready
        /\ m.viewport = renderHelp)
          => m'.mode = "modeHelp" /\ m'.viewport = renderHelp]_vars

\* C38: in Diff mode the diff text on screen is that of the file under the
\* file cursor (or none while it loads): a file's diff that arrives after the
\* cursor has moved on does not take its place.
C38_DiffShowsSelectedFile ==
    (m.mode = "modeDiff" /\ m.diff.content # "")
        => m.diff.content = m.diff.files[m.diff.fileCursor + 1]

\* The reloads still in flight.
ReloadsInFlight == {c \in BagToSet(pending) : c.type = "loadLog"}

\* C39: once all the reloads in flight have returned, the forest is the one
\* read by the reload dispatched last, whatever the order in which the
\* results arrived.
C39_LatestReloadWins ==
    ReloadsInFlight = {}
        => Shape(m.branches) = Shape(ParseLogShort(VersionOutput(debounce.loads)))

\* C40: no branch is lost in parsing: the forest has exactly one node,
\* reachable from its roots, for each line of the output that carries a
\* marker and a non-empty name.
C40_NoBranchLost ==
    Parsed => Cardinality(ForestNodes(m.branches)) = Len(ParsedLines(msg.output))

====
